---- MODULE Spec2Model ----
(***************************************************************************)
(* Model of src/banking_system.cpp: Transaction, Account (SavingsAccount,  *)
(* CurrentAccount), Bank and the state-changing menu cases of              *)
(* BankingSystem::run.                                                     *)
(*                                                                         *)
(* Money is a C++ double in the source.  Here a money value is an exact    *)
(* rational [n, d] in lowest terms with d > 0, so that balance * 0.04 / 12 *)
(* is computed as the real number it denotes; floating-point rounding is   *)
(* not modelled.  The timestamp of a Transaction (wall clock) and the      *)
(* console output are not part of the state.                               *)
(***************************************************************************)
EXTENDS Integers, Sequences, FiniteSets, TLC

\* ---------------------------------------------------------------- bounds
MaxOps == 3

\* inputs typed at the menu prompts
AccNums == {"A1", "A2"}
HolderNames == {"Alice"}
InitBalances == {-1020, -300, 0, 300}
Amounts == {-200, 0, 200, 300, 1000}

\* ------------------------------------------------- arithmetic on doubles
Abs(i) == IF i < 0 THEN -i ELSE i

RECURSIVE GCD(_, _)
GCD(a, b) == IF b = 0 THEN a ELSE GCD(b, a % b)

Rat(n, d) ==
    LET g == GCD(Abs(n), d)
    IN  [n |-> n \div g, d |-> d \div g]

RInt(i) == [n |-> i, d |-> 1]

RNeg(x) == [n |-> -x.n, d |-> x.d]

RAdd(x, y) ==
    LET g == GCD(x.d, y.d)
        l == (x.d \div g) * y.d
    IN  Rat(x.n * (l \div x.d) + y.n * (l \div y.d), l)

RSub(x, y) == RAdd(x, RNeg(y))

RMul(x, y) == Rat(x.n * y.n, x.d * y.d)

RDivInt(x, k) == Rat(x.n, x.d * k)

RLess(x, y) == x.n * y.d < y.n * x.d

RLeq(x, y) == x.n * y.d <= y.n * x.d

Zero == RInt(0)

\* ------------------------------------------------------ program constants
DefaultIntRate == Rat(4, 100)
DefaultMinBalance == 100
DefaultOverdraftLim == 1000
DefaultOverdraftF == 25
MonthsPerYear == 12

\* ------------------------------------------------------------ Transaction
Transaction(t, amt, balance) ==
    [type |-> t, amount |-> amt, balanceAfter |-> balance]

\* ---------------------------------------------------------------- Account
Account_RecordNonNegative(accNum, name, initialBalance) ==
    [accountNumber |-> accNum, holderName |-> name, balance |-> initialBalance,
     transactionHistory |->
        IF RLeq(Zero, initialBalance)
        THEN <<Transaction("Initial Deposit", initialBalance, initialBalance)>>
        ELSE <<>>]

Account(accNum, name, initialBalance) ==
    [accountNumber |-> accNum, holderName |-> name, balance |-> initialBalance,
     transactionHistory |->
        IF RLess(Zero, initialBalance)
        THEN <<Transaction("Initial Deposit", initialBalance, initialBalance)>>
        ELSE <<>>]

addTransaction(acc, type, amount) ==
    [acc EXCEPT !.transactionHistory =
        Append(@, Transaction(type, amount, acc.balance))]

\* --------------------------------------------------------- SavingsAccount
SavingsAccount(accNum, name, initialBalance, intRate, minBalance) ==
    Account(accNum, name, initialBalance) @@
    [kind |-> "Savings", interestRate |-> intRate, minimumBalance |-> minBalance]

SavingsDeposit(acc, amount) ==
    IF RLeq(amount, Zero)
    THEN acc
    ELSE addTransaction([acc EXCEPT !.balance = RAdd(@, amount)],
                        "Deposit", amount)

SavingsWithdraw_Leq(acc, amount) ==
    IF RLeq(amount, Zero)
    THEN [acc |-> acc, ret |-> FALSE]
    ELSE IF RLeq(RSub(acc.balance, amount), acc.minimumBalance)
    THEN [acc |-> acc, ret |-> FALSE]
    ELSE [acc |-> addTransaction([acc EXCEPT !.balance = RSub(@, amount)],
                                 "Withdrawal", amount),
          ret |-> TRUE]

SavingsWithdraw(acc, amount) ==
    IF RLeq(amount, Zero)
    THEN [acc |-> acc, ret |-> FALSE]
    ELSE IF RLess(RSub(acc.balance, amount), acc.minimumBalance)
    THEN [acc |-> acc, ret |-> FALSE]
    ELSE [acc |-> addTransaction([acc EXCEPT !.balance = RSub(@, amount)],
                                 "Withdrawal", amount),
          ret |-> TRUE]

applyInterest_Annual(acc) ==
    LET interest == RMul(acc.balance, acc.interestRate)
    IN  addTransaction([acc EXCEPT !.balance = RAdd(@, interest)],
                       "Interest Credit", interest)

applyInterest(acc) ==
    LET interest == RDivInt(RMul(acc.balance, acc.interestRate), MonthsPerYear)
    IN  addTransaction([acc EXCEPT !.balance = RAdd(@, interest)],
                       "Interest Credit", interest)

\* --------------------------------------------------------- CurrentAccount
CurrentAccount(accNum, name, initialBalance, overdraftLim, overdraftF) ==
    Account(accNum, name, initialBalance) @@
    [kind |-> "Current", overdraftLimit |-> overdraftLim, overdraftFee |-> overdraftF]

CurrentDeposit_AcceptZero(acc, amount) ==
    IF RLess(amount, Zero)
    THEN acc
    ELSE addTransaction([acc EXCEPT !.balance = RAdd(@, amount)],
                        "Deposit", amount)

CurrentDeposit(acc, amount) ==
    IF RLeq(amount, Zero)
    THEN acc
    ELSE addTransaction([acc EXCEPT !.balance = RAdd(@, amount)],
                        "Deposit", amount)

\* the fee is deducted but its record is not appended
CurrentWithdraw_FeeNotRecorded(acc, amount) ==
    IF RLeq(amount, Zero)
    THEN [acc |-> acc, ret |-> FALSE]
    ELSE IF RLess(RSub(acc.balance, amount), RNeg(acc.overdraftLimit))
    THEN [acc |-> acc, ret |-> FALSE]
    ELSE LET a1 == addTransaction([acc EXCEPT !.balance = RSub(@, amount)],
                                  "Withdrawal", amount)
         IN  [acc |-> IF RLess(a1.balance, Zero)
                      THEN [a1 EXCEPT !.balance = RSub(@, acc.overdraftFee)]
                      ELSE a1,
              ret |-> TRUE]

\* the fee is charged when the balance reaches zero, too
CurrentWithdraw_FeeAtZero(acc, amount) ==
    IF RLeq(amount, Zero)
    THEN [acc |-> acc, ret |-> FALSE]
    ELSE IF RLess(RSub(acc.balance, amount), RNeg(acc.overdraftLimit))
    THEN [acc |-> acc, ret |-> FALSE]
    ELSE LET a1 == addTransaction([acc EXCEPT !.balance = RSub(@, amount)],
                                  "Withdrawal", amount)
         IN  [acc |-> IF RLeq(a1.balance, Zero)
                      THEN addTransaction(
                               [a1 EXCEPT !.balance = RSub(@, acc.overdraftFee)],
                               "Overdraft Fee", acc.overdraftFee)
                      ELSE a1,
              ret |-> TRUE]

\* the limit check forgets the amount
CurrentWithdraw_LimitOnBalance(acc, amount) ==
    IF RLeq(amount, Zero)
    THEN [acc |-> acc, ret |-> FALSE]
    ELSE IF RLess(acc.balance, RNeg(acc.overdraftLimit))
    THEN [acc |-> acc, ret |-> FALSE]
    ELSE LET a1 == addTransaction([acc EXCEPT !.balance = RSub(@, amount)],
                                  "Withdrawal", amount)
         IN  [acc |-> IF RLess(a1.balance, Zero)
                      THEN addTransaction(
                               [a1 EXCEPT !.balance = RSub(@, acc.overdraftFee)],
                               "Overdraft Fee", acc.overdraftFee)
                      ELSE a1,
              ret |-> TRUE]

CurrentWithdraw(acc, amount) ==
    IF RLeq(amount, Zero)
    THEN [acc |-> acc, ret |-> FALSE]
    ELSE IF RLess(RSub(acc.balance, amount), RNeg(acc.overdraftLimit))
    THEN [acc |-> acc, ret |-> FALSE]
    ELSE LET a1 == addTransaction([acc EXCEPT !.balance = RSub(@, amount)],
                                  "Withdrawal", amount)
         IN  [acc |-> IF RLess(a1.balance, Zero)
                      THEN addTransaction(
                               [a1 EXCEPT !.balance = RSub(@, acc.overdraftFee)],
                               "Overdraft Fee", acc.overdraftFee)
                      ELSE a1,
              ret |-> TRUE]

\* ------------------------------------------------------- virtual dispatch
deposit(acc, amount) ==
    IF acc.kind = "Savings" THEN SavingsDeposit(acc, amount)
                            ELSE CurrentDeposit(acc, amount)

withdraw(acc, amount) ==
    IF acc.kind = "Savings" THEN SavingsWithdraw(acc, amount)
                            ELSE CurrentWithdraw(acc, amount)

\* ------------------------------------------------------------------- Bank
RECURSIVE FindIf(_, _, _)
FindIf(accs, accNum, i) ==
    IF i > Len(accs) THEN 0
    ELSE IF accs[i].accountNumber = accNum THEN i
    ELSE FindIf(accs, accNum, i + 1)

RECURSIVE FindLast(_, _, _)
FindLast(accs, accNum, i) ==
    IF i < 1 THEN 0
    ELSE IF accs[i].accountNumber = accNum THEN i
    ELSE FindLast(accs, accNum, i - 1)

findAccount_Last(accs, accNum) == FindLast(accs, accNum, Len(accs))

\* index of the account returned, 0 for nullptr
findAccount(accs, accNum) == FindIf(accs, accNum, 1)

applyInterestToSavingsAccounts_ByNumber(accs) ==
    [i \in DOMAIN accs |->
        IF accs[i].kind = "Savings" /\ FindIf(accs, accs[i].accountNumber, 1) = i
        THEN applyInterest(accs[i])
        ELSE accs[i]]

applyInterestToSavingsAccounts(accs) ==
    [i \in DOMAIN accs |->
        IF accs[i].kind = "Savings" THEN applyInterest(accs[i]) ELSE accs[i]]

\* ------------------------------------------------------------------ state
VARIABLES accounts, opened, lastOp, nOps

vars == <<accounts, opened, lastOp, nOps>>

Call(op, accNum, amount, ret) ==
    [op |-> op, accNum |-> accNum, amount |-> amount, ret |-> ret]

Init ==
    /\ accounts = <<>>
    /\ opened = <<>>
    /\ lastOp = Call("none", "", Zero, "void")
    /\ nOps = 0

createSavingsAccount ==
    \E accNum \in AccNums, holderName \in HolderNames, initialBalance \in InitBalances :
        /\ nOps < MaxOps
        /\ accounts' = Append(accounts,
               SavingsAccount(accNum, holderName, RInt(initialBalance),
                              DefaultIntRate, RInt(DefaultMinBalance)))
        /\ opened' = Append(opened, RInt(initialBalance))
        /\ lastOp' = Call("createSavingsAccount", accNum, RInt(initialBalance), "void")
        /\ nOps' = nOps + 1

createCurrentAccount ==
    \E accNum \in AccNums, holderName \in HolderNames, initialBalance \in InitBalances :
        /\ nOps < MaxOps
        /\ accounts' = Append(accounts,
               CurrentAccount(accNum, holderName, RInt(initialBalance),
                              RInt(DefaultOverdraftLim), RInt(DefaultOverdraftF)))
        /\ opened' = Append(opened, RInt(initialBalance))
        /\ lastOp' = Call("createCurrentAccount", accNum, RInt(initialBalance), "void")
        /\ nOps' = nOps + 1

DepositMoney ==
    \E accNum \in AccNums, amount \in Amounts :
        LET acc == findAccount(accounts, accNum)
        IN  /\ nOps < MaxOps
            /\ IF acc # 0
               THEN /\ accounts' = [accounts EXCEPT ![acc] = deposit(@, RInt(amount))]
                    /\ lastOp' = Call("deposit", accNum, RInt(amount), "void")
               ELSE /\ accounts' = accounts
                    /\ lastOp' = Call("deposit", accNum, Zero, "notfound")
            /\ nOps' = nOps + 1
            /\ UNCHANGED opened

WithdrawMoney ==
    \E accNum \in AccNums, amount \in Amounts :
        LET acc == findAccount(accounts, accNum)
        IN  /\ nOps < MaxOps
            /\ IF acc # 0
               THEN LET r == withdraw(accounts[acc], RInt(amount))
                    IN  /\ accounts' = [accounts EXCEPT ![acc] = r.acc]
                        /\ lastOp' = Call("withdraw", accNum, RInt(amount),
                                          IF r.ret THEN "true" ELSE "false")
               ELSE /\ accounts' = accounts
                    /\ lastOp' = Call("withdraw", accNum, Zero, "notfound")
            /\ nOps' = nOps + 1
            /\ UNCHANGED opened

ApplyInterest ==
    /\ nOps < MaxOps
    /\ accounts' = applyInterestToSavingsAccounts(accounts)
    /\ lastOp' = Call("applyInterestToSavingsAccounts", "", Zero, "void")
    /\ nOps' = nOps + 1
    /\ UNCHANGED opened

Next ==
    \/ createSavingsAccount
    \/ createCurrentAccount
    \/ DepositMoney
    \/ WithdrawMoney
    \/ ApplyInterest

Spec == Init /\ [][Next]_vars

\* ------------------------------------------------- helpers for properties
Creates == {"createSavingsAccount", "createCurrentAccount"}

Credits == {"Deposit", "Interest Credit"}

Debits == {"Withdrawal", "Overdraft Fee"}

RECURSIVE SumOf(_, _, _)
SumOf(h, types, k) ==
    IF k > Len(h) THEN Zero
    ELSE RAdd(IF h[k].type \in types THEN h[k].amount ELSE Zero,
              SumOf(h, types, k + 1))

CountOf(h, types) == Cardinality({k \in DOMAIN h : h[k].type \in types})

\* type and amount of the records appended to history pre to give history post
Appended(pre, post) ==
    [k \in 1 .. (Len(post) - Len(pre)) |->
        <<post[Len(pre) + k].type, post[Len(pre) + k].amount>>]

Extends(pre, post) ==
    /\ Len(post) >= Len(pre)
    /\ SubSeq(post, 1, Len(pre)) = pre

\* the account a deposit or withdrawal named by lastOp' was routed to
Target == findAccount(accounts, lastOp'.accNum)

\* ------------------------------------------------------------------ C1
\* C1: in every reachable state every account's balance equals the initial
\* balance it was created with, plus the amounts of its Deposit and Interest
\* Credit records, minus the amounts of its Withdrawal and Overdraft Fee
\* records (the Initial Deposit record is not counted a second time).
C1_BalanceIsLedger ==
    /\ Len(opened) = Len(accounts)
    /\ \A i \in DOMAIN accounts :
          accounts[i].balance =
              RSub(RAdd(opened[i], SumOf(accounts[i].transactionHistory, Credits, 1)),
                   SumOf(accounts[i].transactionHistory, Debits, 1))

C1_Witness ==
    \E i \in DOMAIN accounts :
        /\ CountOf(accounts[i].transactionHistory, {"Initial Deposit"}) = 1
        /\ CountOf(accounts[i].transactionHistory, {"Withdrawal"}) >= 1
        /\ CountOf(accounts[i].transactionHistory, {"Overdraft Fee"}) >= 1

\* ------------------------------------------------------------------ C2
\* C2: a CurrentAccount withdrawal of amount > 0 is rejected (false, account
\* unchanged) exactly when balance - amount < -overdraftLimit; otherwise it
\* returns true and appends Withdrawal(amount) then Overdraft Fee(fee),
\* ending at balance - amount - fee, when balance - amount is negative, and
\* only Withdrawal(amount), ending at balance - amount, when it is not.
C2_Step ==
    (lastOp'.op = "withdraw" /\ Target # 0 /\ RLess(Zero, lastOp'.amount)) =>
        LET pre == accounts[Target]
            post == accounts'[Target]
            amt == lastOp'.amount
            left == RSub(pre.balance, amt)
        IN  pre.kind = "Current" =>
              IF RLess(left, RNeg(pre.overdraftLimit))
              THEN lastOp'.ret = "false" /\ post = pre
              ELSE /\ lastOp'.ret = "true"
                   /\ Extends(pre.transactionHistory, post.transactionHistory)
                   /\ IF RLess(left, Zero)
                      THEN /\ Appended(pre.transactionHistory, post.transactionHistory)
                                = << <<"Withdrawal", amt>>,
                                     <<"Overdraft Fee", pre.overdraftFee>> >>
                           /\ post.balance = RSub(left, pre.overdraftFee)
                      ELSE /\ Appended(pre.transactionHistory, post.transactionHistory)
                                = << <<"Withdrawal", amt>> >>
                           /\ post.balance = left

C2_CurrentWithdraw == [][C2_Step]_vars

C2_Witness ==
    /\ lastOp.op = "withdraw"
    /\ lastOp.ret = "true"
    /\ \E i \in DOMAIN accounts :
          LET h == accounts[i].transactionHistory
          IN  /\ accounts[i].kind = "Current"
              /\ i = findAccount(accounts, lastOp.accNum)
              /\ Len(h) >= 2
              /\ h[Len(h)].type = "Overdraft Fee"
              /\ h[Len(h) - 1].type = "Withdrawal"

\* ------------------------------------------------------------------ C3
\* C3: a SavingsAccount withdrawal of amount > 0 is accepted exactly when
\* balance - amount >= minimumBalance; rejected it returns false and leaves
\* the account unchanged; accepted it returns true, decreases the balance by
\* amount and appends one Withdrawal record, so the balance right after is
\* at least minimumBalance.
C3_Step ==
    (lastOp'.op = "withdraw" /\ Target # 0 /\ RLess(Zero, lastOp'.amount)) =>
        LET pre == accounts[Target]
            post == accounts'[Target]
            amt == lastOp'.amount
            left == RSub(pre.balance, amt)
        IN  pre.kind = "Savings" =>
              IF RLeq(pre.minimumBalance, left)
              THEN /\ lastOp'.ret = "true"
                   /\ post.balance = left
                   /\ Extends(pre.transactionHistory, post.transactionHistory)
                   /\ Appended(pre.transactionHistory, post.transactionHistory)
                        = << <<"Withdrawal", amt>> >>
                   /\ RLeq(post.minimumBalance, post.balance)
              ELSE lastOp'.ret = "false" /\ post = pre

C3_SavingsWithdraw == [][C3_Step]_vars

C3_Witness ==
    /\ lastOp.op = "withdraw"
    /\ lastOp.ret = "true"
    /\ \E i \in DOMAIN accounts :
          LET h == accounts[i].transactionHistory
          IN  /\ accounts[i].kind = "Savings"
              /\ i = findAccount(accounts, lastOp.accNum)
              /\ Len(h) >= 1
              /\ h[Len(h)].type = "Withdrawal"
              /\ accounts[i].balance = accounts[i].minimumBalance

\* ------------------------------------------------------------------ C4
\* C4: for both variants a deposit or withdrawal of amount <= 0 changes no
\* account (and the withdrawal returns false); a deposit of amount > 0 is
\* always accepted, increases the balance by amount and appends exactly one
\* Deposit record.
C4_Step ==
    (lastOp'.op \in {"deposit", "withdraw"} /\ Target # 0) =>
        LET pre == accounts[Target]
            post == accounts'[Target]
            amt == lastOp'.amount
        IN  /\ RLeq(amt, Zero) =>
                /\ accounts' = accounts
                /\ lastOp'.op = "withdraw" => lastOp'.ret = "false"
            /\ (RLess(Zero, amt) /\ lastOp'.op = "deposit") =>
                /\ post.balance = RAdd(pre.balance, amt)
                /\ Extends(pre.transactionHistory, post.transactionHistory)
                /\ Appended(pre.transactionHistory, post.transactionHistory)
                     = << <<"Deposit", amt>> >>

C4_InvalidAmount == [][C4_Step]_vars

C4_Witness ==
    /\ lastOp.op = "deposit"
    /\ lastOp.ret = "void"
    /\ RLeq(lastOp.amount, Zero)
    /\ \E i \in DOMAIN accounts :
          /\ i = findAccount(accounts, lastOp.accNum)
          /\ accounts[i].kind = "Current"
          /\ CountOf(accounts[i].transactionHistory, {"Deposit"}) = 1

\* ------------------------------------------------------------------ C5
\* C5: applyInterest on a Savings account with balance B and annual rate R
\* increases the balance by exactly B*R/12 and appends exactly one Interest
\* Credit record of that amount; there is no guard, so every Interest Credit
\* record is computed from the balance left by the record before it.
MonthlyInterest(b, r) == RMul(b, RMul(r, Rat(1, 12)))

C5_Step ==
    lastOp'.op = "applyInterestToSavingsAccounts" =>
        \A i \in DOMAIN accounts :
            accounts[i].kind = "Savings" =>
                LET pre == accounts[i]
                    post == accounts'[i]
                    due == MonthlyInterest(pre.balance, pre.interestRate)
                IN  /\ RSub(post.balance, pre.balance) = due
                    /\ Extends(pre.transactionHistory, post.transactionHistory)
                    /\ Appended(pre.transactionHistory, post.transactionHistory)
                         = << <<"Interest Credit", due>> >>

C5_Compounds ==
    \A i \in DOMAIN accounts :
        accounts[i].kind = "Savings" =>
            LET h == accounts[i].transactionHistory
            IN  \A k \in DOMAIN h :
                    h[k].type = "Interest Credit" =>
                        LET before == IF k = 1 THEN opened[i]
                                               ELSE h[k - 1].balanceAfter
                        IN  /\ h[k].amount =
                                  MonthlyInterest(before, accounts[i].interestRate)
                            /\ h[k].balanceAfter = RAdd(before, h[k].amount)

C5_ApplyInterest == []C5_Compounds /\ [][C5_Step]_vars

C5_Witness ==
    /\ lastOp.op = "applyInterestToSavingsAccounts"
    /\ \E i \in DOMAIN accounts :
          LET h == accounts[i].transactionHistory
          IN  /\ accounts[i].kind = "Savings"
              /\ Len(h) >= 2
              /\ h[Len(h)].type = "Interest Credit"
              /\ h[Len(h) - 1].type = "Interest Credit"
              /\ RLess(h[Len(h) - 1].amount, h[Len(h)].amount)

\* ------------------------------------------------------------------ C6
\* C6: findAccount(n) returns nullptr exactly when no account has number n;
\* otherwise the account returned has number n and is the one created first
\* among those with that number, so a deposit or withdrawal routed through
\* findAccount never changes any other account, a later duplicate included.
C6_FirstMatch ==
    \A n \in AccNums :
        LET f == findAccount(accounts, n)
        IN  /\ f = 0 <=> ~ \E i \in DOMAIN accounts : accounts[i].accountNumber = n
            /\ f # 0 =>
                /\ f \in DOMAIN accounts
                /\ accounts[f].accountNumber = n
                /\ \A j \in 1 .. (f - 1) : accounts[j].accountNumber # n

C6_Step ==
    lastOp'.op \in {"deposit", "withdraw"} =>
        /\ Len(accounts') = Len(accounts)
        /\ lastOp'.ret = "notfound" <=>
              ~ \E i \in DOMAIN accounts : accounts[i].accountNumber = lastOp'.accNum
        /\ \A i \in DOMAIN accounts :
              accounts'[i] # accounts[i] =>
                  /\ accounts[i].accountNumber = lastOp'.accNum
                  /\ \A j \in 1 .. (i - 1) :
                        accounts[j].accountNumber # lastOp'.accNum

C6_FindAccount == []C6_FirstMatch /\ [][C6_Step]_vars

C6_Witness ==
    /\ lastOp.op = "deposit"
    /\ Len(accounts) = 2
    /\ accounts[1].accountNumber = lastOp.accNum
    /\ accounts[2].accountNumber = lastOp.accNum
    /\ CountOf(accounts[1].transactionHistory, {"Deposit"}) = 1
    /\ CountOf(accounts[2].transactionHistory, {"Deposit"}) = 0

\* ------------------------------------------------------------------ C7
\* C7: one call of applyInterestToSavingsAccounts applies applyInterest
\* exactly once to every Savings account, duplicates of an earlier number
\* included, leaves every Current account unchanged, and keeps the number and
\* order of the accounts.
C7_Step ==
    lastOp'.op = "applyInterestToSavingsAccounts" =>
        /\ Len(accounts') = Len(accounts)
        /\ \A i \in DOMAIN accounts :
              /\ accounts'[i].accountNumber = accounts[i].accountNumber
              /\ accounts'[i].kind = accounts[i].kind
              /\ accounts[i].kind = "Current" => accounts'[i] = accounts[i]
              /\ accounts[i].kind = "Savings" =>
                    /\ Len(accounts'[i].transactionHistory)
                         = Len(accounts[i].transactionHistory) + 1
                    /\ Extends(accounts[i].transactionHistory,
                               accounts'[i].transactionHistory)
                    /\ accounts'[i].transactionHistory[
                           Len(accounts'[i].transactionHistory)].type = "Interest Credit"
                    /\ accounts'[i].balance =
                           RAdd(accounts[i].balance,
                                accounts'[i].transactionHistory[
                                    Len(accounts'[i].transactionHistory)].amount)

C7_BatchInterest == [][C7_Step]_vars

C7_Witness ==
    /\ lastOp.op = "applyInterestToSavingsAccounts"
    /\ Len(accounts) = 2
    /\ accounts[1].accountNumber = accounts[2].accountNumber
    /\ accounts[1].kind = "Current"
    /\ accounts[2].kind = "Savings"
    /\ CountOf(accounts[1].transactionHistory, {"Interest Credit"}) = 0
    /\ CountOf(accounts[2].transactionHistory, {"Interest Credit"}) = 1

\* ------------------------------------------------------------------ C8
\* C8 (as stated): an account created with a non-zero initial balance,
\* negative ones included, has exactly one Initial Deposit record, the first
\* of its history, with amount and balanceAfter equal to the initial balance;
\* created with initial balance 0 its history is empty.
InitialDepositRecorded(i) ==
    LET h == accounts[i].transactionHistory
    IN  /\ Len(h) >= 1
        /\ h[1] = Transaction("Initial Deposit", opened[i], opened[i])
        /\ CountOf(h, {"Initial Deposit"}) = 1

C8_AsStated ==
    /\ \A i \in DOMAIN accounts :
          IF opened[i] # Zero
          THEN InitialDepositRecorded(i)
          ELSE CountOf(accounts[i].transactionHistory, {"Initial Deposit"}) = 0
    /\ lastOp.op \in Creates =>
          accounts[Len(accounts)].transactionHistory =
                IF opened[Len(accounts)] # Zero
                THEN <<Transaction("Initial Deposit", opened[Len(accounts)],
                                   opened[Len(accounts)])>>
                ELSE <<>>

\* C8 (amended): an account created with a positive initial balance has
\* exactly one Initial Deposit record, the first of its history, with amount
\* and balanceAfter equal to the initial balance; created with a zero or
\* negative initial balance its history is empty after creation and never
\* holds an Initial Deposit record, while its balance is the initial balance.
C8_InitialDeposit ==
    /\ \A i \in DOMAIN accounts :
          IF RLess(Zero, opened[i])
          THEN InitialDepositRecorded(i)
          ELSE CountOf(accounts[i].transactionHistory, {"Initial Deposit"}) = 0
    /\ lastOp.op \in Creates =>
          /\ lastOp.amount = opened[Len(accounts)]
          /\ accounts[Len(accounts)].balance = opened[Len(accounts)]
          /\ accounts[Len(accounts)].transactionHistory =
                IF RLess(Zero, opened[Len(accounts)])
                THEN <<Transaction("Initial Deposit", opened[Len(accounts)],
                                   opened[Len(accounts)])>>
                ELSE <<>>

C8_Witness ==
    /\ lastOp.op \in Creates
    /\ RLess(lastOp.amount, Zero)
    /\ accounts[Len(accounts)].transactionHistory = <<>>
    /\ RLess(accounts[Len(accounts)].balance, Zero)
    /\ \E i \in DOMAIN accounts :
          RLess(Zero, opened[i]) /\ Len(accounts[i].transactionHistory) >= 2

\* ------------------------------------------------------------------ C9
\* C9: every transaction record of every account has a non-negative amount.
C9_AmountsNonNegative ==
    \A i \in DOMAIN accounts :
        \A k \in DOMAIN accounts[i].transactionHistory :
            RLeq(Zero, accounts[i].transactionHistory[k].amount)

\* ------------------------------------------------------------------ C10
\* C10: a Current account created with initial balance >= -(overdraftLimit +
\* overdraftFee) and overdraftFee >= 0 never has a balance below
\* -(overdraftLimit + overdraftFee); while its balance is below
\* -overdraftLimit every withdrawal from it is rejected.
Floor(acc) == RNeg(RAdd(acc.overdraftLimit, acc.overdraftFee))

C10_Floor ==
    \A i \in DOMAIN accounts :
        (/\ accounts[i].kind = "Current"
         /\ RLeq(Zero, accounts[i].overdraftFee)
         /\ RLeq(Floor(accounts[i]), opened[i]))
            => RLeq(Floor(accounts[i]), accounts[i].balance)

C10_Step ==
    (lastOp'.op = "withdraw" /\ Target # 0) =>
        LET pre == accounts[Target]
        IN  (pre.kind = "Current" /\ RLess(pre.balance, RNeg(pre.overdraftLimit)))
                => lastOp'.ret = "false" /\ accounts' = accounts

C10_OverdraftBound == []C10_Floor /\ [][C10_Step]_vars

C10_Witness ==
    /\ lastOp.op = "withdraw"
    /\ lastOp.ret = "false"
    /\ RLess(Zero, lastOp.amount)
    /\ \E i \in DOMAIN accounts :
          LET h == accounts[i].transactionHistory
          IN  /\ i = findAccount(accounts, lastOp.accNum)
              /\ accounts[i].kind = "Current"
              /\ RLeq(Zero, opened[i])
              /\ RLess(accounts[i].balance, RNeg(accounts[i].overdraftLimit))
              /\ Len(h) >= 1
              /\ h[Len(h)].type = "Overdraft Fee"

====
